---- MODULE Spec2Model ----
(***************************************************************************)
(* Model of src/app.py: the Streamlit page "Pro Meeting Transcriber".      *)
(* One click of "Process Audio" reruns the script; the handler validates   *)
(* the two inputs, stages the audio in a temporary file, uploads it,       *)
(* asks the model for a JSON document, deletes the remote asset and the    *)
(* staged file, and renders the response in three tabs.                    *)
(*                                                                         *)
(* Python values are tagged records: [t |-> "null"], [t |-> "num", v],     *)
(* [t |-> "bool", v], [t |-> "str", v], [t |-> "list", v |-> <<..>>] and   *)
(* [t |-> "obj", v |-> << [k |-> key, v |-> value], .. >>] (a dict keeps   *)
(* insertion order).  Exceptions are records [cls, msg]; NoExc is the      *)
(* absence of one.                                                         *)
(***************************************************************************)
EXTENDS Integers, Sequences, FiniteSets, TLC

\* Number of clicks of "Process Audio" explored in one behaviour.
MaxClicks == 2

--------------------------------------------------------------------------
(* Python values *)

Null == [t |-> "null"]
Num(n) == [t |-> "num", v |-> n]
Bool(b) == [t |-> "bool", v |-> b]
Str(s) == [t |-> "str", v |-> s]
List(s) == [t |-> "list", v |-> s]
Obj(pairs) == [t |-> "obj", v |-> pairs]
KV(key, val) == [k |-> key, v |-> val]

NoExc == [cls |-> "none", msg |-> ""]
Exc(c, m) == [cls |-> c, msg |-> m]

\* The names the module binds before the handler runs: the four imports and
\* the module-level assignments.  "json" is not among them.
ModuleNames ==
    {"st", "genai", "tempfile", "os", "api_key", "selected_model",
     "audio_file", "SYSTEM_INSTRUCTION", "USER_PROMPT"}

\* Evaluating a global name: NameError when the module does not bind it.
LookupName(n) ==
    IF n \in ModuleNames THEN NoExc
    ELSE Exc("NameError", "name '" \o n \o "' is not defined")

\* Every exception class the handler can meet derives from Exception.
ExceptionSubclasses ==
    {"NameError", "AttributeError", "TypeError", "JSONDecodeError",
     "OSError", "Exception"}

--------------------------------------------------------------------------
(* Response texts the remote model may return, and what json.loads makes   *)
(* of each.                                                                *)

TextFull ==
    "{\"meeting_metadata\": {\"speaker_count_estimate\": 2, \"primary_languages\": [\"en\", \"ml\"], \"audio_quality_notes\": [\"clear\"]}, \"meeting_note\": {\"meeting_overview\": \"sync\", \"executive_summary_bullets\": [\"b1\"], \"action_items\": [{\"action\": \"ship\", \"owner\": \"A\"}], \"decisions_made\": [{\"decision\": \"go\"}], \"risks_or_blockers\": [\"r1\"]}, \"transcript_segments\": [], \"transcript_plaintext\": \"hi\"}"
TextNoNote ==
    "{\"meeting_metadata\": {\"speaker_count_estimate\": 2}, \"transcript_segments\": [], \"transcript_plaintext\": \"hi\"}"
TextNullMeta ==
    "{\"meeting_metadata\": null, \"meeting_note\": {}, \"transcript_segments\": [], \"transcript_plaintext\": \"hi\"}"
TextNumLang ==
    "{\"meeting_metadata\": {\"primary_languages\": [1]}, \"meeting_note\": {}, \"transcript_segments\": [], \"transcript_plaintext\": \"hi\"}"
TextStrAction ==
    "{\"meeting_metadata\": {}, \"meeting_note\": {\"action_items\": [\"ship\"]}, \"transcript_segments\": [], \"transcript_plaintext\": \"hi\"}"
TextTopList == "[]"
TextTruncated == "{\"meeting_metadata\": {\"speaker_count"
TextEmpty == ""

Texts ==
    {TextFull, TextNoNote, TextNullMeta, TextNumLang, TextStrAction,
     TextTopList, TextTruncated, TextEmpty}

ValFull ==
    Obj(<< KV("meeting_metadata",
              Obj(<< KV("speaker_count_estimate", Num(2)),
                     KV("primary_languages", List(<<Str("en"), Str("ml")>>)),
                     KV("audio_quality_notes", List(<<Str("clear")>>)) >>)),
           KV("meeting_note",
              Obj(<< KV("meeting_overview", Str("sync")),
                     KV("executive_summary_bullets", List(<<Str("b1")>>)),
                     KV("action_items",
                        List(<< Obj(<< KV("action", Str("ship")),
                                       KV("owner", Str("A")) >>) >>)),
                     KV("decisions_made",
                        List(<< Obj(<< KV("decision", Str("go")) >>) >>)),
                     KV("risks_or_blockers", List(<<Str("r1")>>)) >>)),
           KV("transcript_segments", List(<< >>)),
           KV("transcript_plaintext", Str("hi")) >>)
ValNoNote ==
    Obj(<< KV("meeting_metadata",
              Obj(<< KV("speaker_count_estimate", Num(2)) >>)),
           KV("transcript_segments", List(<< >>)),
           KV("transcript_plaintext", Str("hi")) >>)
ValNullMeta ==
    Obj(<< KV("meeting_metadata", Null),
           KV("meeting_note", Obj(<< >>)),
           KV("transcript_segments", List(<< >>)),
           KV("transcript_plaintext", Str("hi")) >>)
ValNumLang ==
    Obj(<< KV("meeting_metadata",
              Obj(<< KV("primary_languages", List(<<Num(1)>>)) >>)),
           KV("meeting_note", Obj(<< >>)),
           KV("transcript_segments", List(<< >>)),
           KV("transcript_plaintext", Str("hi")) >>)
ValStrAction ==
    Obj(<< KV("meeting_metadata", Obj(<< >>)),
           KV("meeting_note",
              Obj(<< KV("action_items", List(<<Str("ship")>>)) >>)),
           KV("transcript_segments", List(<< >>)),
           KV("transcript_plaintext", Str("hi")) >>)

\* json.loads on the texts above: [exc, val].
json_loads(text) ==
    CASE text = TextFull -> [exc |-> NoExc, val |-> ValFull]
      [] text = TextNoNote -> [exc |-> NoExc, val |-> ValNoNote]
      [] text = TextNullMeta -> [exc |-> NoExc, val |-> ValNullMeta]
      [] text = TextNumLang -> [exc |-> NoExc, val |-> ValNumLang]
      [] text = TextStrAction -> [exc |-> NoExc, val |-> ValStrAction]
      [] text = TextTopList -> [exc |-> NoExc, val |-> List(<< >>)]
      [] OTHER ->
            [exc |-> Exc("JSONDecodeError", "Expecting value"), val |-> Null]

\* The texts json.loads accepts.
WellFormed(text) == json_loads(text).exc = NoExc

\* The characters of the strings the sample documents hold.
Chars(s) ==
    CASE s = "" -> << >>
      [] s = "hi" -> <<"h", "i">>
      [] s = "en" -> <<"e", "n">>
      [] s = "ml" -> <<"m", "l">>
      [] s = "b1" -> <<"b", "1">>
      [] s = "r1" -> <<"r", "1">>
      [] s = "go" -> <<"g", "o">>
      [] s = "A" -> <<"A">>
      [] s = "sync" -> <<"s", "y", "n", "c">>
      [] s = "ship" -> <<"s", "h", "i", "p">>
      [] s = "clear" -> <<"c", "l", "e", "a", "r">>
      [] OTHER -> <<s>>

--------------------------------------------------------------------------
(* Python built-ins the renderer relies on *)

TypeName(x) ==
    CASE x.t = "null" -> "NoneType"
      [] x.t = "num" -> "int"
      [] x.t = "bool" -> "bool"
      [] x.t = "str" -> "str"
      [] x.t = "list" -> "list"
      [] x.t = "obj" -> "dict"

RECURSIVE JoinStrs(_, _)
\* sep.join(strs) for a sequence of strings.
JoinStrs(sep, strs) ==
    IF strs = << >> THEN ""
    ELSE IF Len(strs) = 1 THEN strs[1]
    ELSE strs[1] \o sep \o JoinStrs(sep, Tail(strs))

RECURSIVE PyStr(_)
RECURSIVE PyRepr(_)
\* str(x)
PyStr(x) ==
    CASE x.t = "null" -> "None"
      [] x.t = "num" -> ToString(x.v)
      [] x.t = "bool" -> IF x.v THEN "True" ELSE "False"
      [] x.t = "str" -> x.v
      [] x.t = "list" ->
            "[" \o JoinStrs(", ", [i \in 1..Len(x.v) |-> PyRepr(x.v[i])]) \o "]"
      [] x.t = "obj" ->
            "{" \o JoinStrs(", ", [i \in 1..Len(x.v) |->
                      "'" \o x.v[i].k \o "': " \o PyRepr(x.v[i].v)]) \o "}"
\* repr(x)
PyRepr(x) == IF x.t = "str" THEN "'" \o x.v \o "'" ELSE PyStr(x)

\* bool(x)
Truthy(x) ==
    CASE x.t = "null" -> FALSE
      [] x.t = "num" -> x.v # 0
      [] x.t = "bool" -> x.v
      [] x.t = "str" -> x.v # ""
      [] x.t = "list" -> x.v # << >>
      [] x.t = "obj" -> x.v # << >>

\* dict.get(key, default): the last pair for the key wins.
DictGet(d, key, default) ==
    LET idx == {i \in 1..Len(d.v) : d.v[i].k = key}
    IN  IF idx = {} THEN default
        ELSE d.v[CHOOSE i \in idx : \A j \in idx : j <= i].v

\* x.get(key, default) on any value: only a dict has .get.
PyGet(x, key, default) ==
    IF x.t = "obj" THEN [exc |-> NoExc, val |-> DictGet(x, key, default)]
    ELSE [exc |-> Exc("AttributeError",
                      "'" \o TypeName(x) \o "' object has no attribute 'get'"),
          val |-> Null]

\* iter(x): the items a for loop or str.join walks through.
PyIter(x) ==
    CASE x.t = "list" -> [exc |-> NoExc, val |-> x.v]
      [] x.t = "str" ->
            [exc |-> NoExc,
             val |-> [i \in 1..Len(Chars(x.v)) |-> Str(Chars(x.v)[i])]]
      [] x.t = "obj" ->
            [exc |-> NoExc, val |-> [i \in 1..Len(x.v) |-> Str(x.v[i].k)]]
      [] OTHER ->
            [exc |-> Exc("TypeError",
                         "'" \o TypeName(x) \o "' object is not iterable"),
             val |-> << >>]

\* ", ".join(x): x must be iterable and hold only strings.
PyJoin(sep, x) ==
    LET it == PyIter(x)
        bad == {i \in 1..Len(it.val) : it.val[i].t # "str"}
    IN  IF it.exc # NoExc
        THEN [exc |-> Exc("TypeError", "can only join an iterable"),
              val |-> Null]
        ELSE IF bad # {}
        THEN LET i == CHOOSE b \in bad : \A c \in bad : b <= c
             IN  [exc |-> Exc("TypeError",
                              "sequence item " \o ToString(i - 1)
                              \o ": expected str instance, "
                              \o TypeName(it.val[i]) \o " found"),
                  val |-> Null]
        ELSE [exc |-> NoExc,
              val |-> Str(JoinStrs(sep, [i \in 1..Len(it.val) |-> it.val[i].v]))]

-----------------------------------------------------------------------------------------------------------------------------------------------
(* The page: a sequence of elements [kind, at, label, body], all strings.  *)
(* Running a statement gives [ui, exc]: the elements it put on the page    *)
(* and the exception it raised, if any.                                    *)

El(kind, at, label, body) ==
    [kind |-> kind, at |-> at, label |-> label, body |-> body]

Emit(e) == [ui |-> << e >>, exc |-> NoExc]
Raise(x) == [ui |-> << >>, exc |-> x]
Pass == [ui |-> << >>, exc |-> NoExc]

RECURSIVE Run(_)
\* Statements in sequence: each runs only when those before it returned.
Run(stmts) ==
    IF stmts = << >> THEN Pass
    ELSE IF stmts[1].exc # NoExc THEN stmts[1]
    ELSE LET rest == Run(Tail(stmts))
         IN  [ui |-> stmts[1].ui \o rest.ui, exc |-> rest.exc]

\* A statement that only evaluates an expression (an assignment).
Eval(res) == IF res.exc # NoExc THEN Raise(res.exc) ELSE Pass

\* colN.metric(label, value): the widget takes None, numbers and strings.
Metric(at, label, res) ==
    IF res.exc # NoExc THEN Raise(res.exc)
    ELSE IF res.val.t \in {"list", "obj"}
    THEN Raise(Exc("TypeError",
                   "'" \o PyStr(res.val) \o "' is of type "
                   \o TypeName(res.val) \o ", which is not an accepted type"))
    ELSE Emit(El("metric", at, label,
                 IF res.val.t = "null" THEN "-" ELSE PyStr(res.val)))

\* ", ".join(meta.get(key, []))
JoinField(meta, key) ==
    LET g == PyGet(meta, key, List(<< >>))
    IN  IF g.exc # NoExc THEN g ELSE PyJoin(", ", g.val)

\* st.write(value) / st.code(value): any value is shown as its str().
Show(kind, at, label, res) ==
    IF res.exc # NoExc THEN Raise(res.exc)
    ELSE Emit(El(kind, at, label, PyStr(res.val)))

\* notes.get(key, []) as the sequence a for loop walks through.
FieldIter(notes, key) ==
    LET g == PyGet(notes, key, List(<< >>))
    IN  IF g.exc # NoExc THEN [exc |-> g.exc, val |-> << >>]
        ELSE PyIter(g.val)

\* for x in notes.get(key, []): st.markdown(f"- {x}")
Bullets(at, it) ==
    IF it.exc # NoExc THEN Raise(it.exc)
    ELSE [ui |-> [i \in 1..Len(it.val) |->
                     El("markdown", at, "", "- " \o PyStr(it.val[i]))],
          exc |-> NoExc]

\* A loop whose body starts with item.get(...) stops at the first item
\* without .get: the number of items shown before it.
GetLoopShown(items) ==
    LET bad == {i \in 1..Len(items) : items[i].t # "obj"}
    IN  IF bad = {} THEN Len(items)
        ELSE (CHOOSE b \in bad : \A c \in bad : b <= c) - 1

\* The exception such a loop ends with, if any.
GetLoopExc(items) ==
    IF GetLoopShown(items) = Len(items) THEN NoExc
    ELSE PyGet(items[GetLoopShown(items) + 1], "", Null).exc

\* The f-string of one action item.
ActionLine(act) ==
    "**" \o PyStr(DictGet(act, "action", Null)) \o "** \n*(Owner: "
    \o PyStr(DictGet(act, "owner", Str("Unassigned"))) \o " | Deadline: "
    \o PyStr(DictGet(act, "deadline", Str("None"))) \o " | Priority: "
    \o PyStr(DictGet(act, "priority", Str("Normal"))) \o ")*"

\* The f-string of one decision.
DecisionLine(dec) ==
    "- " \o PyStr(DictGet(dec, "decision", Null)) \o " *(Owner: "
    \o PyStr(DictGet(dec, "owner", Str("N/A"))) \o ")*"

\* for dec in notes.get("decisions_made", []): st.markdown(f"- {...}")
Decisions(at, it) ==
    IF it.exc # NoExc THEN Raise(it.exc)
    ELSE [ui |-> [i \in 1..GetLoopShown(it.val) |->
                     El("markdown", at, "", DecisionLine(it.val[i]))],
          exc |-> GetLoopExc(it.val)]

\* actions = notes.get("action_items", []); if actions: for ... else: ...
Actions(at, g) ==
    IF g.exc # NoExc THEN Raise(g.exc)
    ELSE IF ~Truthy(g.val)
    THEN Emit(El("write", at, "Action Items", "No action items detected."))
    ELSE IF PyIter(g.val).exc # NoExc THEN Raise(PyIter(g.val).exc)
    ELSE [ui |-> [i \in 1..GetLoopShown(PyIter(g.val).val) |->
                     El("markdown", at, "", ActionLine(PyIter(g.val).val[i]))],
          exc |-> GetLoopExc(PyIter(g.val).val)]

--------------------------------------------------------------------------
(* Rendering of a parsed response: the three tabs *)

\* with tab1: the dashboard.
RenderTab1(data) ==
    LET gm    == PyGet(data, "meeting_metadata", Obj(<< >>))
        meta  == gm.val
        gn    == PyGet(data, "meeting_note", Obj(<< >>))
        notes == gn.val
    IN  Run(<< Emit(El("header", "tab1", "", "Meeting Dashboard")),
               Eval(gm),
               Metric("tab1", "Speakers Detected",
                      PyGet(meta, "speaker_count_estimate", Str("N/A"))),
               Metric("tab1", "Primary Languages",
                      JoinField(meta, "primary_languages")),
               Metric("tab1", "Audio Quality",
                      JoinField(meta, "audio_quality_notes")),
               Emit(El("divider", "tab1", "", "")),
               Eval(gn),
               Emit(El("subheader", "tab1", "", "Overview")),
               Show("write", "tab1", "Overview",
                    PyGet(notes, "meeting_overview",
                          Str("No overview provided."))),
               Emit(El("subheader", "tab1", "", "Executive Summary")),
               Bullets("tab1", FieldIter(notes, "executive_summary_bullets")),
               Emit(El("divider", "tab1", "", "")),
               Emit(El("subheader", "tab1", "", "Action Items")),
               Actions("tab1", PyGet(notes, "action_items", List(<< >>))),
               Emit(El("expander", "tab1", "",
                       "View Decisions, Risks, and Next Steps")),
               Emit(El("markdown", "tab1", "", "**Decisions Made:**")),
               Decisions("tab1", FieldIter(notes, "decisions_made")),
               Emit(El("markdown", "tab1", "", "**Risks / Blockers:**")),
               Bullets("tab1", FieldIter(notes, "risks_or_blockers")) >>)

\* with tab2: the copy-friendly transcript.
RenderTab2(data) ==
    Run(<< Emit(El("header", "tab2", "", "Transcript")),
           Emit(El("caption", "tab2", "",
                "Hover over the top right corner of the box below to copy the transcript.")),
           Show("code", "tab2", "text",
                PyGet(data, "transcript_plaintext",
                      Str("No transcript available."))) >>)

\* with tab3: the raw response text.
RenderTab3(text) ==
    Run(<< Emit(El("header", "tab3", "", "Raw JSON Output")),
           Emit(El("code", "tab3", "json", text)) >>)

\* The body of the inner try: parse, then fill the three tabs.
TryBody(text) ==
    LET p == json_loads(text)
    IN  Run(<< Eval([exc |-> LookupName("json")]),
               Eval(p),
               Emit(El("tabs", "main", "",
                       "Dashboard | Transcript | Raw JSON")),
               RenderTab1(p.val),
               RenderTab2(p.val),
               RenderTab3(text) >>)

\* The inner try with its except clause.  The clause's expression
\* json.JSONDecodeError is evaluated only when the body raised; when that
\* evaluation raises, its exception replaces the one being handled.
ParseAndRender(text) ==
    LET b  == TryBody(text)
        nm == LookupName("json")
    IN  IF b.exc = NoExc THEN b
        ELSE IF nm # NoExc THEN [b EXCEPT !.exc = nm]
        ELSE IF b.exc.cls = "JSONDecodeError"
        THEN [ui |-> b.ui \o
                  << El("error", "main", "",
                        "The model did not return perfectly formatted JSON. Here is the raw output:"),
                     El("code", "main", "", text) >>,
              exc |-> NoExc]
        ELSE b

--------------------------------------------------------------------------
(* The handler of the "Process Audio" button as a state machine *)

VARIABLES
    pc,                    \* position of the script run
    clicks,                \* clicks so far; the current run's file and asset id
    api_key,               \* sidebar text input
    audio_file,            \* file uploader value
    created,               \* file made by NamedTemporaryFile in this run, or 0
    temp_path,             \* the local temp_path, or 0 while unbound
    uploaded_gemini_file,  \* the remote asset handle, or 0 while unbound
    response,              \* response.text, or NoResponse while unbound
    localFiles,            \* temporary files on disk
    remoteAssets,          \* assets held by the remote service
    ui,                    \* elements on the page in this run
    log,                   \* calls made in this run: [step, ok]
    pending,               \* exception travelling to the outer except
    escaped                \* an exception left the handler uncaught

vars ==
    << pc, clicks, api_key, audio_file, created, temp_path,
       uploaded_gemini_file, response, localFiles, remoteAssets, ui, log,
       pending, escaped >>

NoFile == "<None>"
NoResponse == "<unbound>"
ApiKeys == {"", "sk-key"}
AudioFiles == {NoFile, "meeting.mp3"}

\* The calls of one round trip, in program order.
Order ==
    << "configure", "create", "write", "upload", "model", "generate",
       "rdelete", "ldelete" >>

\* Variant: the file is tested before the credential.
ValidateFileFirst(key, file) ==
    IF file = NoFile THEN "nofile"
    ELSE IF key = "" THEN "nokey"
    ELSE "run"

\* if not api_key / elif not audio_file / else
Validate(key, file) ==
    IF key = "" THEN "nokey"
    ELSE IF file = NoFile THEN "nofile"
    ELSE "run"

\* The statement that follows a call of the try block.
NextStatement(step) ==
    CASE step = "configure" -> "create"
      [] step = "create" -> "write"
      [] step = "write" -> "upload"
      [] step = "upload" -> "model"
      [] step = "model" -> "generate"
      [] step = "generate" -> "rdelete"
      [] step = "rdelete" -> "ldelete"
      [] step = "ldelete" -> "success"
      [] step = "success" -> "render"

\* Variant: a failed upload is ignored and the round trip goes on.
AfterStepIgnoreUploadError(step, ok) ==
    IF ~ok /\ step # "upload" THEN "except" ELSE NextStatement(step)

\* Variant: a failed delete is ignored.
AfterStepIgnoreDeleteError(step, ok) ==
    IF ~ok /\ step \notin {"rdelete", "ldelete"} THEN "except"
    ELSE NextStatement(step)

\* Where control goes after a call of the try block: the next statement
\* when it returned, the outer except clause when it raised.
AfterStep(step, ok) ==
    IF ~ok THEN "except" ELSE NextStatement(step)

\* Variant: the outer clause names only the remote and file errors.
OuterCatchesNarrow(e) == e.cls \in {"Exception", "OSError"}

\* except Exception as e
OuterCatches(e) == e.cls \in ExceptionSubclasses

\* genai.delete_file(name) on the service's assets
DeleteFile(assets, a) == assets \ {a}

\* os.remove(path) on the disk
OsRemove(files, f) == files \ {f}

Logged(step, ok) == Append(log, [step |-> step, ok |-> ok])

Init ==
    /\ pc = "idle"
    /\ clicks = 0
    /\ api_key = ""
    /\ audio_file = NoFile
    /\ created = 0
    /\ temp_path = 0
    /\ uploaded_gemini_file = 0
    /\ response = NoResponse
    /\ localFiles = {}
    /\ remoteAssets = {}
    /\ ui = << >>
    /\ log = << >>
    /\ pending = NoExc
    /\ escaped = FALSE

\* The user sets the two inputs and clicks; Streamlit reruns the script.
Click ==
    /\ pc = "idle"
    /\ clicks < MaxClicks
    /\ \E k \in ApiKeys, f \in AudioFiles :
          /\ api_key' = k
          /\ audio_file' = f
    /\ clicks' = clicks + 1
    /\ pc' = "validate"
    /\ created' = 0
    /\ temp_path' = 0
    /\ uploaded_gemini_file' = 0
    /\ response' = NoResponse
    /\ ui' = << >>
    /\ log' = << >>
    /\ pending' = NoExc
    /\ escaped' = FALSE
    /\ UNCHANGED << localFiles, remoteAssets >>

\* Lines 114-118: input validation.
ValidateInputs ==
    /\ pc = "validate"
    /\ LET v == Validate(api_key, audio_file)
       IN  CASE v = "nokey" ->
                   /\ ui' = Append(ui, El("error", "main", "",
                          "Please enter your Gemini API Key in the sidebar."))
                   /\ pc' = "idle"
             [] v = "nofile" ->
                   /\ ui' = Append(ui, El("warning", "main", "",
                          "Please upload an audio file first."))
                   /\ pc' = "idle"
             [] v = "run" ->
                   /\ ui' = ui
                   /\ pc' = "configure"
    /\ UNCHANGED << clicks, api_key, audio_file, created, temp_path,
                    uploaded_gemini_file, response, localFiles, remoteAssets,
                    log, pending, escaped >>

\* Line 120: genai.configure(api_key=api_key).
Configure ==
    /\ pc = "configure"
    /\ \E ok \in BOOLEAN :
          /\ log' = Logged("configure", ok)
          /\ pc' = AfterStep("configure", ok)
          /\ pending' = IF ok THEN NoExc
                        ELSE Exc("Exception", "configure failed")
    /\ UNCHANGED << clicks, api_key, audio_file, created, temp_path,
                    uploaded_gemini_file, response, localFiles, remoteAssets,
                    ui, escaped >>

\* Line 124: tempfile.NamedTemporaryFile(delete=False, suffix=...).
CreateTemp ==
    /\ pc = "create"
    /\ \E ok \in BOOLEAN :
          /\ log' = Logged("create", ok)
          /\ pc' = AfterStep("create", ok)
          /\ created' = IF ok THEN clicks ELSE 0
          /\ localFiles' = IF ok THEN localFiles \cup {clicks} ELSE localFiles
          /\ pending' = IF ok THEN NoExc
                        ELSE Exc("OSError", "No usable temporary directory")
    /\ UNCHANGED << clicks, api_key, audio_file, temp_path,
                    uploaded_gemini_file, response, remoteAssets, ui, escaped >>

\* Lines 125-126: temp_file.write(audio_file.read()); temp_path = temp_file.name.
\* Leaving the with block closes the file and, with delete=False, keeps it.
WriteTemp ==
    /\ pc = "write"
    /\ \E ok \in BOOLEAN :
          /\ log' = Logged("write", ok)
          /\ pc' = AfterStep("write", ok)
          /\ temp_path' = IF ok THEN created ELSE 0
          /\ pending' = IF ok THEN NoExc
                        ELSE Exc("OSError", "No space left on device")
    /\ UNCHANGED << clicks, api_key, audio_file, created,
                    uploaded_gemini_file, response, localFiles, remoteAssets,
                    ui, escaped >>

\* Lines 128-129: st.info(...); genai.upload_file(temp_path).
Upload ==
    /\ pc = "upload"
    /\ ui' = Append(ui, El("info", "main", "",
                           "Uploading audio file securely..."))
    /\ \E ok \in BOOLEAN :
          /\ log' = Logged("upload", ok)
          /\ pc' = AfterStep("upload", ok)
          /\ uploaded_gemini_file' = IF ok THEN clicks ELSE 0
          /\ remoteAssets' = IF ok THEN remoteAssets \cup {clicks}
                             ELSE remoteAssets
          /\ pending' = IF ok THEN NoExc
                        ELSE Exc("Exception", "upload failed")
    /\ UNCHANGED << clicks, api_key, audio_file, created, temp_path,
                    response, localFiles, escaped >>

\* Lines 132-136: genai.GenerativeModel(...).
MakeModel ==
    /\ pc = "model"
    /\ \E ok \in BOOLEAN :
          /\ log' = Logged("model", ok)
          /\ pc' = AfterStep("model", ok)
          /\ pending' = IF ok THEN NoExc
                        ELSE Exc("Exception", "model construction failed")
    /\ UNCHANGED << clicks, api_key, audio_file, created, temp_path,
                    uploaded_gemini_file, response, localFiles, remoteAssets,
                    ui, escaped >>

\* Lines 138-139: st.info(...); model.generate_content([...]).
Generate ==
    /\ pc = "generate"
    /\ ui' = Append(ui, El("info", "main", "",
                           "Generating transcripts and meeting notes..."))
    /\ \E ok \in BOOLEAN :
          /\ log' = Logged("generate", ok)
          /\ pc' = AfterStep("generate", ok)
          /\ IF ok THEN \E t \in Texts : response' = t
                   ELSE response' = NoResponse
          /\ pending' = IF ok THEN NoExc
                        ELSE Exc("Exception", "generation failed")
    /\ UNCHANGED << clicks, api_key, audio_file, created, temp_path,
                    uploaded_gemini_file, localFiles, remoteAssets, escaped >>

\* Line 142: genai.delete_file(uploaded_gemini_file.name).
RemoteDelete ==
    /\ pc = "rdelete"
    /\ \E ok \in BOOLEAN :
          /\ log' = Logged("rdelete", ok)
          /\ pc' = AfterStep("rdelete", ok)
          /\ remoteAssets' = IF ok
                             THEN DeleteFile(remoteAssets, uploaded_gemini_file)
                             ELSE remoteAssets
          /\ pending' = IF ok THEN NoExc
                        ELSE Exc("Exception", "delete failed")
    /\ UNCHANGED << clicks, api_key, audio_file, created, temp_path,
                    uploaded_gemini_file, response, localFiles, ui, escaped >>

\* Line 143: os.remove(temp_path).
LocalDelete ==
    /\ pc = "ldelete"
    /\ \E ok \in BOOLEAN :
          /\ log' = Logged("ldelete", ok)
          /\ pc' = AfterStep("ldelete", ok)
          /\ localFiles' = IF ok THEN OsRemove(localFiles, temp_path)
                           ELSE localFiles
          /\ pending' = IF ok THEN NoExc
                        ELSE Exc("OSError", "Permission denied")
    /\ UNCHANGED << clicks, api_key, audio_file, created, temp_path,
                    uploaded_gemini_file, response, remoteAssets, ui, escaped >>

\* Line 145: st.success("Processing Complete!").
Success ==
    /\ pc = "success"
    /\ ui' = Append(ui, El("success", "main", "", "Processing Complete!"))
    /\ pc' = AfterStep("success", TRUE)
    /\ UNCHANGED << clicks, api_key, audio_file, created, temp_path,
                    uploaded_gemini_file, response, localFiles, remoteAssets,
                    log, pending, escaped >>

\* Lines 147-212: the inner try block and its except clause.
Render ==
    /\ pc = "render"
    /\ LET r == ParseAndRender(response)
       IN  /\ ui' = ui \o r.ui
           /\ pending' = r.exc
           /\ pc' = IF r.exc = NoExc THEN "idle" ELSE "except"
    /\ UNCHANGED << clicks, api_key, audio_file, created, temp_path,
                    uploaded_gemini_file, response, localFiles, remoteAssets,
                    log, escaped >>

\* Lines 214-215: except Exception as e: st.error(f"An error occurred: {e}").
OuterExcept ==
    /\ pc = "except"
    /\ IF OuterCatches(pending)
       THEN /\ ui' = Append(ui, El("error", "main", "",
                                   "An error occurred: " \o pending.msg))
            /\ escaped' = FALSE
       ELSE /\ ui' = ui
            /\ escaped' = TRUE
    /\ pc' = "idle"
    /\ UNCHANGED << clicks, api_key, audio_file, created, temp_path,
                    uploaded_gemini_file, response, localFiles, remoteAssets,
                    log, pending >>

Next ==
    \/ Click
    \/ ValidateInputs
    \/ Configure
    \/ CreateTemp
    \/ WriteTemp
    \/ Upload
    \/ MakeModel
    \/ Generate
    \/ RemoteDelete
    \/ LocalDelete
    \/ Success
    \/ Render
    \/ OuterExcept

Spec == Init /\ [][Next]_vars

--------------------------------------------------------------------------
(* Properties *)

\* The handler of some click has finished.
Finished == pc = "idle" /\ clicks > 0

Did(step) == \E i \in DOMAIN log : log[i].step = step
DidOk(step) == \E i \in DOMAIN log : log[i].step = step /\ log[i].ok

\* The run got past both deletes and through the parse/render block.
Rendered == Finished /\ DidOk("ldelete")

MsgNoKey == "Please enter your Gemini API Key in the sidebar."
MsgNoFile == "Please upload an audio file first."
MsgFallback ==
    "The model did not return perfectly formatted JSON. Here is the raw output:"

ShowsIn(kind, at, body) ==
    \E i \in DOMAIN ui :
        ui[i].kind = kind /\ ui[i].at = at /\ ui[i].body = body
ShowsKind(kind) == \E i \in DOMAIN ui : ui[i].kind = kind
PopulatedTab(at) == \E i \in DOMAIN ui : ui[i].at = at /\ ui[i].kind # "header"
ShowsSuccess == ShowsIn("success", "main", "Processing Complete!")
ShowsFallback == ShowsIn("error", "main", MsgFallback)
\* Some element made from the response is on the page.
ShowsResponse ==
    \/ ShowsFallback
    \/ \E i \in DOMAIN ui :
          ui[i].kind \notin {"info", "success", "error", "warning"}

TopKeys(text) ==
    LET d == json_loads(text).val
    IN  IF d.t = "obj" THEN {d.v[i].k : i \in DOMAIN d.v} ELSE {}
IsObject(text) == WellFormed(text) /\ json_loads(text).val.t = "obj"
FourKeys ==
    {"meeting_metadata", "meeting_note", "transcript_segments",
     "transcript_plaintext"}

\* C1: once genai.upload_file has succeeded in a click, genai.delete_file
\* is called on the asset before the handler finishes, on every exit path.
C1_UploadedAssetDeleted ==
    (Finished /\ DidOk("upload")) => Did("rdelete")

\* C2: once the temporary file has been created in a click, os.remove is
\* called on it before the handler finishes, whatever the later calls do.
C2_StagedFileRemoved ==
    (Finished /\ DidOk("create")) => Did("ldelete")

\* C3: a response text that is not parseable as JSON is rendered as the
\* warning plus the raw text, and nothing leaves the parse/render block.
C3_MalformedFallsBack ==
    (Rendered /\ ~WellFormed(response)) =>
        /\ ShowsFallback
        /\ ShowsIn("code", "main", response)
        /\ pending = NoExc

\* C4: an empty credential is rejected with the missing-credential message
\* and a missing file (credential present) with the missing-input message;
\* in both cases the click makes no call and creates no temporary file.
C4_RejectsBeforeAnyCall ==
    /\ (clicks > 0 /\ (api_key = "" \/ audio_file = NoFile)) =>
           /\ log = << >>
           /\ created = 0
           /\ clicks \notin localFiles \cup remoteAssets
    /\ (Finished /\ api_key = "") =>
           ui = << El("error", "main", "", MsgNoKey) >>
    /\ (Finished /\ api_key # "" /\ audio_file = NoFile) =>
           ui = << El("warning", "main", "", MsgNoFile) >>

\* C4 witness: a click with an empty credential and a file present has been
\* rejected.
C4_Witness ==
    /\ Finished
    /\ api_key = ""
    /\ audio_file # NoFile
    /\ ShowsIn("error", "main", MsgNoKey)

\* C5: a well-formed object with the four top-level keys, after a round
\* trip in which every call succeeded, populates the three tabs and shows
\* no error message.
C5_FourKeyResponseFillsTabs ==
    (Rendered /\ IsObject(response) /\ TopKeys(response) = FourKeys) =>
        /\ PopulatedTab("tab1")
        /\ PopulatedTab("tab2")
        /\ ShowsIn("code", "tab3", response)
        /\ ~ShowsKind("error")

\* C6: an object without the "meeting_note" key is rendered with the
\* placeholders, without an error message, transcript and raw JSON included.
C6_MissingNoteUsesPlaceholders ==
    (Rendered /\ IsObject(response)
              /\ "meeting_note" \notin TopKeys(response)) =>
        /\ ShowsIn("write", "tab1", "No overview provided.")
        /\ ShowsIn("write", "tab1", "No action items detected.")
        /\ ~ShowsKind("error")
        /\ PopulatedTab("tab2")
        /\ ShowsIn("code", "tab3", response)

\* C7: whenever the response text parses as JSON, the raw text is shown
\* unmodified in the raw-JSON tab, whatever the parsed value is.
C7_RawJsonAlwaysExposed ==
    (Rendered /\ WellFormed(response)) => ShowsIn("code", "tab3", response)

\* C8: no exception leaves the handler, and every finished click left a
\* message or a rendered result on the page.
C8_NothingEscapes ==
    /\ ~escaped
    /\ Finished =>
          \/ ShowsKind("error")
          \/ ShowsKind("warning")
          \/ (ShowsKind("tabs") /\ pending = NoExc)

\* C8 witness: the exception raised while evaluating the inner except
\* clause was caught and reported by the outer handler.
C8_Witness ==
    /\ Rendered
    /\ pending.cls = "NameError"
    /\ ShowsIn("error", "main", "An error occurred: " \o pending.msg)

\* C9: the calls of a click are a prefix of the fixed order (so each is made
\* at most once), and a call is made only when every earlier one returned.
C9_OneOrderedRoundTrip ==
    /\ Len(log) <= Len(Order)
    /\ \A i \in DOMAIN log : log[i].step = Order[i]
    /\ \A i \in DOMAIN log : i < Len(log) => log[i].ok

\* C9 witness: a click went through the whole round trip.
C9_Witness ==
    /\ Finished
    /\ Len(log) = Len(Order)
    /\ log[Len(log)].ok

\* C10: the success message, the parse and every display of the response
\* come after both deletes returned; the asset and the staged file are gone
\* by then.
C10_DisplayOnlyAfterCleanup ==
    (pc \in {"success", "render"} \/ ShowsSuccess \/ ShowsResponse) =>
        /\ DidOk("rdelete")
        /\ DidOk("ldelete")
        /\ uploaded_gemini_file \notin remoteAssets
        /\ temp_path \notin localFiles

\* C10 witness: the success message is on the page after a response was
\* obtained and parsed.
C10_Witness ==
    /\ Finished
    /\ ShowsSuccess
    /\ response # NoResponse
    /\ pending # NoExc

====
